---- MODULE Spec2Model ----
(***************************************************************************)
(* Model of the two maintenance scripts of PantherKolab:                   *)
(*   scripts/update-sender-id.py          (the mutator)                    *)
(*   scripts/import-messages-to-dynamodb.py   (the loader)                 *)
(* The DynamoDB table is modelled as a keyed map; one action per store     *)
(* call of a script, with the local code that follows the call.            *)
(***************************************************************************)
EXTENDS Integers, Sequences, FiniteSets, TLC

\* ---------------------------------------------------------------- bounds
NumRows == 3        \* key slots of the mutator's table, in scan order
MaxPage == 2        \* most key slots one scan page examines
MaxOtherWrites == 1 \* writes of the other writer during the runs

\* ------------------------------------------------- mutator: configuration
OLD_SENDER_ID == "a1b2c3d4-e5f6-7890-abcd-ef1234567890"
NEW_SENDER_ID == "44e88408-8091-7022-99dc-c9b9b9d1d4af"
OtherSender   == "some-other-sender"
SenderIds     == {OLD_SENDER_ID, NEW_SENDER_ID, OtherSender}

Runs == {"A", "B"}              \* invocations of the mutator
Keys == 1 .. NumRows            \* (conversationId, timestamp) in scan order
NoKey == 0                      \* 'LastEvaluatedKey' / 'ExclusiveStartKey' not set

\* A key slot holds a row or nothing.  content stands for every attribute
\* other than the key and senderId; <<>> is "attribute not present".
AbsentRow == [present |-> FALSE, senderId |-> "", content |-> <<>>]
ContentOf(k) == <<"content", k>>
RowOf(k, s) == [present |-> TRUE, senderId |-> s, content |-> ContentOf(k)]
RowChoices(k) == {AbsentRow} \cup {RowOf(k, s) : s \in SenderIds}

\* --------------------------------------------------------- text helpers
\* str.strip(): drops leading and trailing whitespace
IsSpace(c) == c \in {" ", "\t"}

RECURSIVE LStrip(_)
LStrip(s) == IF s # <<>> /\ IsSpace(Head(s)) THEN LStrip(Tail(s)) ELSE s

RECURSIVE RStrip(_)
RStrip(s) ==
    IF s # <<>> /\ IsSpace(s[Len(s)]) THEN RStrip(SubSeq(s, 1, Len(s) - 1)) ELSE s

Strip(s) == RStrip(LStrip(s))

\* str.lower() on the characters the inputs are drawn from
LowerChar(c) ==
    CASE c = "Y" -> "y"
      [] c = "E" -> "e"
      [] c = "S" -> "s"
      [] c = "N" -> "n"
      [] c = "O" -> "o"
      [] c = "T" -> "t"
      [] c = "R" -> "r"
      [] c = "U" -> "u"
      [] OTHER   -> c

Lower(s) == [i \in 1 .. Len(s) |-> LowerChar(s[i])]

\* ------------------------------------------------ mutator: confirmation
YesToken == <<"y", "e", "s">>

\* lines typed at the prompt "Do you want to proceed? (yes/no): "
Lines ==
    { <<"y", "e", "s">>,
      <<" ", "Y", "E", "S", " ">>,
      <<"n", "o">>,
      <<"y">>,
      <<>>,
      <<"y", "e", "s", "s">>,
      <<"y", "e", " ", "s">>,
      <<" ">> }

\* input(...).strip().lower()
Normalize(line) == Lower(Strip(line))

\* if response == 'yes'
AcceptedUnlessNo(resp) == resp # <<"n", "o">>
Accepted(resp) == resp = YesToken

\* ------------------------------------------------------ store: scan
\* FilterExpression 'senderId = :old_sender'
FilterMatches(row) == row.senderId = OLD_SENDER_ID

\* Page sizes the store may choose when resuming after key slot `start`
PageSizes(start) ==
    IF start >= NumRows THEN {0}
    ELSE {n \in 1 .. MaxPage : start + n <= NumRows}

\* One scan page: the store examines the n key slots after `start`, returns
\* the rows among them that match the filter, and LastEvaluatedKey = the last
\* slot examined unless the scan reached the end of the table (at the end the
\* store may still hand out a token; the next page is then empty).
ScanPage(tbl, start, n, tokenAtEnd) ==
    [Items |-> SelectSeq([i \in 1 .. n |-> start + i],
                         LAMBDA k : tbl[k].present /\ FilterMatches(tbl[k])),
     LastEvaluatedKey |->
        IF start + n < NumRows \/ (tokenAtEnd /\ n > 0)
        THEN start + n ELSE NoKey]

\* ------------------------------------------------- store: update-item
\* update_item(Key, 'SET senderId = :new_sender'): an unconditional upsert of
\* one attribute; fails only when the store rejects the call.
UpdateItemConditional(tbl, k, fault) ==
    IF fault \/ ~tbl[k].present \/ tbl[k].senderId # OLD_SENDER_ID
    THEN [ok |-> FALSE, table |-> tbl]
    ELSE [ok |-> TRUE,
          table |-> [tbl EXCEPT ![k] = [@ EXCEPT !.senderId = NEW_SENDER_ID]]]
UpdateItemPut(tbl, k, fault) ==
    IF fault THEN [ok |-> FALSE, table |-> tbl]
    ELSE [ok |-> TRUE,
          table |-> [tbl EXCEPT ![k] =
                        [present |-> TRUE, senderId |-> NEW_SENDER_ID, content |-> <<>>]]]
UpdateItem(tbl, k, fault) ==
    IF fault THEN [ok |-> FALSE, table |-> tbl]
    ELSE [ok |-> TRUE,
          table |-> [tbl EXCEPT ![k] =
                        IF @.present
                        THEN [@ EXCEPT !.senderId = NEW_SENDER_ID]
                        ELSE [present |-> TRUE, senderId |-> NEW_SENDER_ID,
                              content |-> <<>>]]]

\* ------------------------------------------------- mutator: control flow
\* scanned_count += len(items)
ScannedAfterExamined(count, items, examined) == count + examined
ScannedAfter(count, items, examined) == count + Len(items)

\* if 'LastEvaluatedKey' not in response: break
LoopEndsOnEmptyPage(items, lastKey) == lastKey = NoKey \/ Len(items) = 0
LoopEndsAfterFirstPage(items, lastKey) == TRUE
LoopEnds(items, lastKey) == lastKey = NoKey

\* Where control goes after item i of the page (i = 0: after the scan call):
\* the next item of the for loop, or the check that ends the while loop.
NextControl(items, i, lastKey, startKey) ==
    IF i < Len(items)
    THEN [pc |-> "update", idx |-> i + 1, startKey |-> startKey]
    ELSE IF LoopEnds(items, lastKey)
         THEN [pc |-> "done", idx |-> 0, startKey |-> startKey]
         ELSE [pc |-> "scan", idx |-> 0, startKey |-> lastKey]

\* except ClientError / except Exception inside the for loop: count and go on
OnItemErrorAbort(items, i, lastKey, startKey) ==
    [pc |-> "aborted", idx |-> 0, startKey |-> startKey]
OnItemError(items, i, lastKey, startKey) ==
    NextControl(items, i, lastKey, startKey)

\* ------------------------------------------------------ loader: records
MaxRecords == 2     \* most records of the input file

RequiredFields ==
    {"conversationId", "timestamp", "messageId", "senderId", "type", "content",
     "createdAt", "deleted"}
OptionalFields == {"replyTo", "duration", "fileName", "fileSize", "mediaUrl"}
Fields == RequiredFields \cup OptionalFields
Attrs == Fields \cup {"readBy", "reactions"}

\* A record of csv.DictReader: field -> string (a sequence of characters), or
\* Missing when the record has no such key (the header has no such column).
Missing == <<"<no such key>">>
None == <<"<None>">>

\* row.get(f): None instead of a KeyError
Get(row, f) == IF row[f] = Missing THEN None ELSE row[f]

\* truth value of a str or None
Truthy(v) == v # None /\ v # <<>>

\* if row.get(f) and row[f].strip():
OptionalIncludedIfNonEmpty(row, f) == Truthy(Get(row, f))
OptionalIncluded(row, f) == Truthy(Get(row, f)) /\ Truthy(Strip(row[f]))

\* typed attribute values of an item; NoAttr: the item has no such attribute
NoAttr == [t |-> "absent", v |-> <<>>]
NoItem == [a \in Attrs |-> NoAttr]
OptionalType(f) == IF f \in {"duration", "fileSize"} THEN "N" ELSE "S"

\* convert_to_dynamodb_item(row); ok = FALSE: a required key is not there
\* (KeyError raised while the dict literal is built)
Convert(row) ==
    IF \E f \in RequiredFields : row[f] = Missing
    THEN [ok |-> FALSE, item |-> NoItem]
    ELSE [ok |-> TRUE,
          item |-> [a \in Attrs |->
             CASE a = "deleted" ->
                    [t |-> "BOOL",
                     v |-> IF Lower(row[a]) = <<"t", "r", "u", "e">>
                           THEN <<"true">> ELSE <<"false">>]
               [] a = "readBy" -> [t |-> "L", v |-> <<>>]
               [] a = "reactions" -> [t |-> "M", v |-> <<>>]
               [] a \in OptionalFields ->
                    IF OptionalIncluded(row, a)
                    THEN [t |-> OptionalType(a), v |-> row[a]] ELSE NoAttr
               [] OTHER -> [t |-> "S", v |-> row[a]]]]

\* primary key of the loader's table
KeyOfItem(item) == <<item["conversationId"].v, item["timestamp"].v>>

\* put_item(Item=item): unconditional replacement of the row with that key
PutItemMerge(tbl, item, fault) ==
    IF fault THEN [ok |-> FALSE, table |-> tbl]
    ELSE [ok |-> TRUE,
          table |-> [tbl EXCEPT ![KeyOfItem(item)] =
                        [a \in Attrs |-> IF item[a] # NoAttr THEN item[a] ELSE @[a]]]]
PutItem(tbl, item, fault) ==
    IF fault THEN [ok |-> FALSE, table |-> tbl]
    ELSE [ok |-> TRUE, table |-> [tbl EXCEPT ![KeyOfItem(item)] = item]]

\* print(f"... {row['messageId']} ...") in the per-record handler
HandlerRaises(row) == row["messageId"] = Missing

\* values the records are drawn from
ConvIdOf == <<"c", "1">>
ConvIds == { ConvIdOf }
Timestamps == { <<"t", "1">>, <<"t", "2">> }
Contents == { <<"h", "i">>, <<"y", "o">> }
ReplyTos == { <<>>, <<"m", "0">> }
LKeys == {<<c, t>> : c \in ConvIds, t \in Timestamps}

BaseRow ==
    [f \in Fields |->
        CASE f = "conversationId" -> <<"c", "1">>
          [] f = "timestamp" -> <<"t", "1">>
          [] f = "messageId" -> <<"m", "1">>
          [] f = "senderId" -> <<"s", "1">>
          [] f = "type" -> <<"t", "e", "x", "t">>
          [] f = "content" -> <<"h", "i">>
          [] f = "createdAt" -> <<"2", "0", "2", "4">>
          [] f = "deleted" -> <<"f", "a", "l", "s", "e">>
          [] OTHER -> <<>>]

\* the records of a file whose header lacks the columns `dropped`
FileRow(ts, content, replyTo, dropped) ==
    [f \in Fields |->
        IF f \in dropped THEN Missing
        ELSE CASE f = "timestamp" -> ts
               [] f = "content" -> content
               [] f = "replyTo" -> replyTo
               [] OTHER -> BaseRow[f]]

Headers == { {}, {"messageId"}, {"senderId"}, {"fileSize"} }

FileRows(dropped) ==
    {FileRow(ts, c, rt, dropped) : ts \in Timestamps, c \in Contents, rt \in ReplyTos}

SeqsUpTo(S, n) == UNION {[1 .. m -> S] : m \in 0 .. n}

Files ==
    {[readable |-> FALSE, rows |-> <<>>]}
    \cup {[readable |-> TRUE, rows |-> rs] :
             rs \in UNION {SeqsUpTo(FileRows(d), MaxRecords) : d \in Headers}}

\* a row some other producer stored before the loader ran
EarlierItem ==
    [Convert(FileRow(<<"t", "1">>, <<"o", "l", "d">>, <<>>, {})).item
        EXCEPT !["fileName"] = [t |-> "S", v |-> <<"a">>]]

\* values of the optional fields the conversion is tried on
OptionalValues ==
    { Missing, <<>>, <<" ">>, <<" ", "\t">>, <<"x">>, <<" ", "x", " ">> }

DeletedValues == { <<"T", "r", "u", "e">>, <<>> }

ConvertRows ==
    {[f \in Fields |->
        CASE f \in OptionalFields -> opt[f]
          [] f = "deleted" -> del
          [] f = "content" -> con
          [] OTHER -> BaseRow[f]] :
        opt \in [OptionalFields -> OptionalValues],
        del \in DeletedValues,
        con \in {Missing, <<"h", "i">>}}

VARIABLES
    table,          \* the mutator's table: key slot -> row
    throttled,      \* the store currently rejects calls
    line,           \* per run: the line typed at the prompt
    response,       \* per run: the normalised answer
    pc,             \* per run: position in the script
    startKey,       \* per run: scan_kwargs['ExclusiveStartKey'] (NoKey: unset)
    items,          \* per run: response['Items'] of the page being processed
    idx,            \* per run: position of the for loop in items
    lastKey,        \* per run: LastEvaluatedKey of the latest response
    scanned_count, updated_count, error_count,
    \* observations of the run, not read by the script
    table0,         \* the table when the runs started
    storeCalls,     \* per run: store calls issued
    pages,          \* per run: scan responses received
    attempts,       \* per run: key -> update-item calls issued for it
    returned,       \* per run: keys some scan page returned
    clobbered,      \* keys a mutator update overwrote while senderId # OLD
    lastWrite,      \* key -> senderId value last written to it ("" : none)
    otherWrites,    \* writes the other writer has made
    \* the loader
    file,           \* the input file: readable or not, and its records
    lpc,            \* position in main()
    lrun,           \* first or second run of the loader
    ridx,           \* index of the record the for loop is at
    imported_count, failed_count,
    messages,       \* the loader's table: key -> item (NoItem: no row)
    afterRun1,      \* observation: the table when the first run ended
    accepted,       \* observation: run -> records whose put-item succeeded
    \* the conversion on its own
    row, item, cpc

mvars == <<table, throttled, line, response, pc, startKey, items, idx, lastKey,
           scanned_count, updated_count, error_count, table0, storeCalls, pages,
           attempts, returned, clobbered, lastWrite, otherWrites>>

lvars == <<file, lpc, lrun, ridx, imported_count, failed_count, messages,
           afterRun1, accepted>>

cvars == <<row, item, cpc>>

vars == <<mvars, lvars, cvars>>

EmptyTable == [k \in LKeys |-> NoItem]

LoaderIdle ==
    /\ file = [readable |-> FALSE, rows |-> <<>>]
    /\ lpc = "idle"
    /\ lrun = 1
    /\ ridx = 0
    /\ imported_count = 0
    /\ failed_count = 0
    /\ messages = EmptyTable
    /\ afterRun1 = EmptyTable
    /\ accepted = [n \in {1, 2} |-> {}]

ConvertIdle ==
    /\ row = BaseRow
    /\ item = NoItem
    /\ cpc = "idle"

MutatorInit(lineChoices, senderChoices, absentChoices) ==
    /\ table \in [Keys -> UNION {RowChoices(k) : k \in Keys}]
    /\ \A k \in Keys :
          /\ table[k] \in RowChoices(k)
          /\ table[k].present \in absentChoices
          /\ table[k].present => table[k].senderId \in senderChoices
    /\ table0 = table
    /\ throttled = FALSE
    /\ line \in [Runs -> lineChoices]
    /\ response = [r \in Runs |-> <<>>]
    /\ pc = [r \in Runs |-> "prompt"]
    /\ startKey = [r \in Runs |-> NoKey]
    /\ items = [r \in Runs |-> <<>>]
    /\ idx = [r \in Runs |-> 0]
    /\ lastKey = [r \in Runs |-> NoKey]
    /\ scanned_count = [r \in Runs |-> 0]
    /\ updated_count = [r \in Runs |-> 0]
    /\ error_count = [r \in Runs |-> 0]
    /\ storeCalls = [r \in Runs |-> 0]
    /\ pages = [r \in Runs |-> 0]
    /\ attempts = [r \in Runs |-> [k \in Keys |-> 0]]
    /\ returned = [r \in Runs |-> {}]
    /\ clobbered = {}
    /\ lastWrite = [k \in Keys |-> ""]
    /\ otherWrites = 0

\* __main__: read the confirmation, enter update_sender_ids or cancel
Confirm(r) ==
    /\ pc[r] = "prompt"
    /\ response' = [response EXCEPT ![r] = Normalize(line[r])]
    /\ pc' = [pc EXCEPT ![r] = IF Accepted(response'[r]) THEN "scan" ELSE "cancelled"]
    /\ UNCHANGED <<table, throttled, line, startKey, items, idx, lastKey,
                   scanned_count, updated_count, error_count, table0, storeCalls,
                   pages, attempts, returned, clobbered, lastWrite, otherWrites, lvars, cvars>>

\* response = dynamodb.scan(**scan_kwargs), and the code up to the next call;
\* sizes: the page sizes the store chooses among
ScanWith(r, sizes) ==
    /\ pc[r] = "scan"
    /\ storeCalls' = [storeCalls EXCEPT ![r] = @ + 1]
    /\ IF throttled
       THEN \* the call raises: caught by the handlers around the whole function
            /\ pc' = [pc EXCEPT ![r] = "aborted"]
            /\ UNCHANGED <<startKey, items, idx, lastKey, scanned_count, pages,
                           returned>>
       ELSE \E n \in sizes, tokenAtEnd \in BOOLEAN :
              LET resp == ScanPage(table, startKey[r], n, tokenAtEnd)
                  ctl  == NextControl(resp.Items, 0, resp.LastEvaluatedKey, startKey[r])
              IN /\ pages' = [pages EXCEPT ![r] = @ + 1]
                 /\ lastKey' = [lastKey EXCEPT ![r] = resp.LastEvaluatedKey]
                 /\ scanned_count' =
                        [scanned_count EXCEPT ![r] = ScannedAfter(@, resp.Items, n)]
                 /\ returned' = [returned EXCEPT ![r] =
                                   @ \cup {resp.Items[i] : i \in 1 .. Len(resp.Items)}]
                 /\ items' = [items EXCEPT ![r] =
                                 IF ctl.pc = "update" THEN resp.Items ELSE <<>>]
                 /\ idx' = [idx EXCEPT ![r] = ctl.idx]
                 /\ startKey' = [startKey EXCEPT ![r] = ctl.startKey]
                 /\ pc' = [pc EXCEPT ![r] = ctl.pc]
    /\ UNCHANGED <<table, throttled, line, response, updated_count, error_count,
                   table0, attempts, clobbered, lastWrite, otherWrites, lvars, cvars>>

Scan(r) == ScanWith(r, PageSizes(startKey[r]))

\* the same call against a store that fills every page
ScanFullPages(r) ==
    ScanWith(r, {n \in PageSizes(startKey[r]) : \A m \in PageSizes(startKey[r]) : m <= n})

\* one iteration of the for loop: update_item for items[idx], the counters,
\* and the loop bookkeeping that follows
Update(r) ==
    /\ pc[r] = "update"
    /\ LET k   == items[r][idx[r]]
           res == UpdateItem(table, k, throttled)
           ctl == IF res.ok
                  THEN NextControl(items[r], idx[r], lastKey[r], startKey[r])
                  ELSE OnItemError(items[r], idx[r], lastKey[r], startKey[r])
       IN /\ storeCalls' = [storeCalls EXCEPT ![r] = @ + 1]
          /\ attempts' = [attempts EXCEPT ![r][k] = @ + 1]
          /\ table' = res.table
          /\ updated_count' = [updated_count EXCEPT ![r] = IF res.ok THEN @ + 1 ELSE @]
          /\ error_count' = [error_count EXCEPT ![r] = IF res.ok THEN @ ELSE @ + 1]
          /\ clobbered' = IF res.ok /\ ~(table[k].present /\ FilterMatches(table[k]))
                          THEN clobbered \cup {k} ELSE clobbered
          /\ lastWrite' = IF res.ok THEN [lastWrite EXCEPT ![k] = NEW_SENDER_ID]
                          ELSE lastWrite
          /\ items' = [items EXCEPT ![r] = IF ctl.pc = "update" THEN @ ELSE <<>>]
          /\ idx' = [idx EXCEPT ![r] = ctl.idx]
          /\ startKey' = [startKey EXCEPT ![r] = ctl.startKey]
          /\ pc' = [pc EXCEPT ![r] = ctl.pc]
    /\ UNCHANGED <<throttled, line, response, lastKey, scanned_count, table0,
                   pages, returned, otherWrites, lvars, cvars>>

\* the store starts or stops rejecting calls (throttling, outage)
StoreFault ==
    /\ throttled' = ~throttled
    /\ (\E r \in Runs : pc[r] \in {"scan", "update"}) \/ lpc = "loop"
    /\ UNCHANGED <<table, line, response, pc, startKey, items, idx, lastKey,
                   scanned_count, updated_count, error_count, table0, storeCalls,
                   pages, attempts, returned, clobbered, lastWrite, otherWrites, lvars, cvars>>

\* another writer sets the senderId of an existing row
OtherWriter ==
    /\ otherWrites < MaxOtherWrites
    /\ otherWrites' = otherWrites + 1
    /\ \E r \in Runs : pc[r] \in {"scan", "update"}
    /\ \E k \in Keys, v \in SenderIds :
          /\ table[k].present
          /\ table[k].senderId # v
          /\ table' = [table EXCEPT ![k].senderId = v]
          /\ lastWrite' = [lastWrite EXCEPT ![k] = v]
    /\ UNCHANGED <<throttled, line, response, pc, startKey, items, idx, lastKey,
                   scanned_count, updated_count, error_count, table0, storeCalls,
                   pages, attempts, returned, clobbered, lvars, cvars>>

\* ---- one run of the mutator, no other writer
InitMutator ==
    /\ MutatorInit(Lines, SenderIds, BOOLEAN)
    /\ line["B"] = <<"n", "o">>
    /\ LoaderIdle
    /\ ConvertIdle

NextMutator ==
    \/ Confirm("A")
    \/ Scan("A")
    \/ Update("A")
    \/ StoreFault

SpecMutator == InitMutator /\ [][NextMutator]_vars

SpecMutatorFair ==
    InitMutator /\ [][NextMutator]_vars
    /\ WF_vars(Confirm("A") \/ Scan("A") \/ Update("A"))

\* ---- two runs of the mutator and another writer, interleaved
RaceLines == { <<"y", "e", "s">>, <<"n", "o">> }

InitRace ==
    /\ MutatorInit(RaceLines, {OLD_SENDER_ID, OtherSender}, {TRUE})
    /\ LoaderIdle
    /\ ConvertIdle

NextRace ==
    \/ \E r \in Runs : Confirm(r)
    \/ \E r \in Runs : ScanFullPages(r)
    \/ \E r \in Runs : Update(r)
    \/ OtherWriter

SpecRace == InitRace /\ [][NextRace]_vars

\* ---- the loader, run twice in sequence on the same file
\* main(): open(CSV_FILE) and the DictReader
Open ==
    /\ lpc = "start"
    /\ lpc' = IF ~file.readable THEN "aborted"
              ELSE IF Len(file.rows) = 0 THEN "done" ELSE "loop"
    /\ ridx' = IF file.readable /\ Len(file.rows) > 0 THEN 1 ELSE 0
    /\ UNCHANGED <<file, lrun, imported_count, failed_count, messages, afterRun1,
                   accepted, mvars, cvars>>

\* one iteration of `for row in csv_reader`: convert, put_item, count, and
\* the per-record handler
ImportRow ==
    /\ lpc = "loop"
    /\ LET rec  == file.rows[ridx]
           conv == Convert(rec)
           put  == IF conv.ok THEN PutItem(messages, conv.item, throttled)
                   ELSE [ok |-> FALSE, table |-> messages]
       IN /\ messages' = put.table
          /\ imported_count' = IF put.ok THEN imported_count + 1 ELSE imported_count
          /\ failed_count' = IF put.ok THEN failed_count ELSE failed_count + 1
          /\ accepted' = IF put.ok THEN [accepted EXCEPT ![lrun] = @ \cup {ridx}]
                         ELSE accepted
          /\ IF ~put.ok /\ HandlerRaises(rec)
             THEN \* the handler's own print raises: caught around the whole loop
                  lpc' = "aborted" /\ ridx' = ridx
             ELSE IF ridx < Len(file.rows)
                  THEN lpc' = "loop" /\ ridx' = ridx + 1
                  ELSE lpc' = "done" /\ ridx' = ridx
    /\ UNCHANGED <<file, lrun, afterRun1, mvars, cvars>>

\* the script is started again on the same file
Rerun ==
    /\ lrun = 1
    /\ lpc \in {"done", "aborted"}
    /\ lrun' = 2
    /\ lpc' = "start"
    /\ ridx' = 0
    /\ imported_count' = 0
    /\ failed_count' = 0
    /\ afterRun1' = messages
    /\ UNCHANGED <<file, messages, accepted, mvars, cvars>>

InitLoader ==
    /\ MutatorInit({<<"n", "o">>}, {OLD_SENDER_ID}, {FALSE})
    /\ ConvertIdle
    /\ file \in Files
    /\ lpc = "start"
    /\ lrun = 1
    /\ ridx = 0
    /\ imported_count = 0
    /\ failed_count = 0
    /\ messages \in {EmptyTable, [EmptyTable EXCEPT ![KeyOfItem(EarlierItem)] = EarlierItem]}
    /\ afterRun1 = EmptyTable
    /\ accepted = [n \in {1, 2} |-> {}]

NextLoader ==
    \/ Open
    \/ ImportRow
    \/ Rerun
    \/ StoreFault

SpecLoader == InitLoader /\ [][NextLoader]_vars

\* ---- the conversion applied to one record
DoConvert ==
    /\ cpc = "start"
    /\ cpc' = IF Convert(row).ok THEN "converted" ELSE "raised"
    /\ item' = Convert(row).item
    /\ UNCHANGED <<row, mvars, lvars>>

InitConvert ==
    /\ MutatorInit({<<"n", "o">>}, {OLD_SENDER_ID}, {FALSE})
    /\ LoaderIdle
    /\ row \in ConvertRows
    /\ item = NoItem
    /\ cpc = "start"

NextConvert == DoConvert

SpecConvert == InitConvert /\ [][NextConvert]_vars

\* ------------------------------------------------------------- claims
\* no scan and no update-item was issued by run r
NoStoreCall(r) ==
    storeCalls[r] = 0 /\ pc[r] \in {"prompt", "cancelled"} /\ pages[r] = 0

\* C1 as stated: a line other than the exact token "yes" leads to no store
\* call and an unchanged table.
C1_ExactTokenGate ==
    (line["A"] # YesToken) => (storeCalls["A"] = 0 /\ table = table0)

\* C1 amended: a line that, stripped of surrounding whitespace and lowercased,
\* is not "yes" leads to no store call and an unchanged table;
\* update_sender_ids is entered only after a line that normalises to "yes".
C1_NormalisedGate ==
    /\ (Lower(Strip(line["A"])) # YesToken) => (NoStoreCall("A") /\ table = table0)
    /\ (pc["A"] \notin {"prompt", "cancelled"}) =>
          (response["A"] = YesToken /\ Lower(Strip(line["A"])) = YesToken)

C1_Witness ==
    /\ pc["A"] = "cancelled"
    /\ line["A"] = <<"y", "e", "s", "s">>
    /\ \E k \in Keys : table[k].present /\ table[k].senderId = OLD_SENDER_ID

\* C2: a run that reaches its summary with error_count = 0, no other writer:
\* every row that had senderId = OLD_SENDER_ID at the start has NEW_SENDER_ID.
C2_Complete ==
    (pc["A"] = "done" /\ error_count["A"] = 0) =>
        \A k \in Keys :
            (table0[k].present /\ table0[k].senderId = OLD_SENDER_ID) =>
                (table[k].present /\ table[k].senderId = NEW_SENDER_ID)

C2_Witness ==
    /\ pc["A"] = "done"
    /\ error_count["A"] = 0
    /\ pages["A"] >= 3
    /\ updated_count["A"] = 2
    /\ table0[1].senderId = OtherSender
    /\ table0[NumRows].senderId = OLD_SENDER_ID

C4_FailedStep(r) ==
    (pc[r] = "update" /\ throttled /\ storeCalls'[r] = storeCalls[r] + 1) =>
        /\ error_count'[r] = error_count[r] + 1
        /\ updated_count'[r] = updated_count[r]
        /\ table' = table
        /\ IF idx[r] < Len(items[r])
           THEN pc'[r] = "update" /\ idx'[r] = idx[r] + 1 /\ items'[r] = items[r]
           ELSE IF lastKey[r] # NoKey
                THEN pc'[r] = "scan" /\ startKey'[r] = lastKey[r]
                ELSE pc'[r] = "done"

\* C4: a failed update-item is counted once in error_count and the loop goes
\* on: to the next row of the page, else to the next scan when the response
\* had a token; the table is left as it was (no rollback), and no row gets a
\* second update attempt; at the summary every returned row got exactly one.
C4_Isolation ==
    /\ [][C4_FailedStep("A")]_vars
    /\ [](\A k \in Keys : attempts["A"][k] <= 1)
    /\ [](pc["A"] \in {"scan", "done"} =>
             \A k \in returned["A"] : attempts["A"][k] = 1)
    /\ [](\A k \in Keys : attempts["A"][k] = 1 => k \in returned["A"])

C4_Witness ==
    /\ pc["A"] = "done"
    /\ pages["A"] >= 2
    /\ error_count["A"] = 1
    /\ updated_count["A"] = 2
    /\ table[1].senderId = NEW_SENDER_ID
    /\ table[2].senderId = OLD_SENDER_ID
    /\ table[3].senderId = NEW_SENDER_ID

C5_CountersInv ==
    /\ updated_count["A"] + error_count["A"] <= scanned_count["A"]
    /\ (pc["A"] # "update") =>
          updated_count["A"] + error_count["A"] = scanned_count["A"]
    /\ (pc["A"] = "update") =>
          updated_count["A"] + error_count["A"] + (Len(items["A"]) - idx["A"] + 1)
             = scanned_count["A"]

\* C5: updated_count + error_count <= scanned_count always; the counters never
\* decrease; when no page is being processed (so at the summary) the two sides
\* are equal, and within a page they differ by the rows still to do.
C5_Counters ==
    /\ []C5_CountersInv
    /\ [][/\ updated_count'["A"] >= updated_count["A"]
          /\ error_count'["A"] >= error_count["A"]
          /\ scanned_count'["A"] >= scanned_count["A"]]_vars

C5_Witness ==
    /\ pc["A"] = "done"
    /\ scanned_count["A"] = 3
    /\ updated_count["A"] = 2
    /\ error_count["A"] = 1

\* C10: with no other writer, the run changes only the senderId of rows a scan
\* page returned: the same keys exist as at the start, every other attribute
\* is as at the start, and a row no page returned is as at the start.
C10_Frame ==
    \A k \in Keys :
        /\ table[k].present = table0[k].present
        /\ table[k].content = table0[k].content
        /\ (k \notin returned["A"]) => (table[k] = table0[k])
        /\ (table[k] # table0[k]) => (table[k].senderId = NEW_SENDER_ID)

C10_Witness ==
    /\ pc["A"] = "done"
    /\ updated_count["A"] >= 1
    /\ \E k \in Keys : table[k] # table0[k]
    /\ \E k \in Keys : table[k].present /\ k \notin returned["A"]
    /\ \E k \in Keys : ~table[k].present

C9_UpdateStep(r) ==
    (pc[r] = "update" /\ ~throttled /\ storeCalls'[r] = storeCalls[r] + 1) =>
        LET k == items[r][idx[r]]
        IN /\ table'[k].present
           /\ table'[k].senderId = NEW_SENDER_ID
           /\ updated_count'[r] = updated_count[r] + 1
           /\ error_count'[r] = error_count[r]

\* C9: the update-item call has no condition on the row's current senderId:
\* whenever the store accepts calls, an update attempt of a run succeeds, sets
\* senderId to NEW_SENDER_ID and is counted in updated_count, not in
\* error_count, whatever another writer or run wrote to the row since the
\* scan; each row's senderId is the value written to it last.
C9_Unconditional ==
    /\ [][\A r \in Runs : C9_UpdateStep(r)]_vars
    /\ [](\A k \in Keys : lastWrite[k] # "" => table[k].senderId = lastWrite[k])

C9_Witness ==
    \E k \in clobbered :
        /\ attempts["A"][k] = 1
        /\ attempts["B"][k] = 1
        /\ updated_count["A"] >= 1
        /\ updated_count["B"] >= 1
        /\ table[k].senderId = NEW_SENDER_ID
        /\ \E j \in clobbered : j # k

\* C6 as stated: a record that fails (put-item rejected, or a required field,
\* messageId included, missing) is a per-record error that never aborts the
\* batch; the loader aborts only when the input file cannot be opened.
C6_OnlyUnreadableFileAborts ==
    (lpc = "aborted") => ~file.readable

NonBlank(v) == v # Missing /\ \E i \in 1 .. Len(v) : v[i] \notin {" ", "\t"}

\* C7: for a record with every required field, the item has each optional
\* attribute exactly when the record has the field with a value that holds a
\* non-whitespace character, then with the value as given; readBy is the
\* empty list and reactions the empty map.
C7_Conversion ==
    (cpc # "start" /\ \A f \in RequiredFields : row[f] # Missing) =>
        /\ cpc = "converted"
        /\ \A f \in OptionalFields :
              /\ (item[f] # NoAttr) <=> NonBlank(row[f])
              /\ (item[f] # NoAttr) => (item[f].v = row[f] /\ item[f].v # <<>>)
        /\ item["readBy"] = [t |-> "L", v |-> <<>>]
        /\ item["reactions"] = [t |-> "M", v |-> <<>>]

C7_Witness ==
    /\ cpc = "converted"
    /\ row["replyTo"] = <<" ", "\t">>
    /\ row["duration"] = Missing
    /\ row["fileName"] = <<" ", "x", " ">>
    /\ row["fileSize"] = <<>>
    /\ row["mediaUrl"] = <<"x">>
    /\ item["fileName"] = [t |-> "S", v |-> <<" ", "x", " ">>]
    /\ item["replyTo"] = NoAttr

LoaderEnded == lpc \in {"done", "aborted"}

RecordKey(j) == <<file.rows[j]["conversationId"], file.rows[j]["timestamp"]>>

LastAccepted(k) ==
    LET js == {j \in accepted[lrun] : RecordKey(j) = k}
    IN IF js = {} THEN 0 ELSE CHOOSE j \in js : \A i \in js : i <= j

====
